---- MODULE Spec2Model ----
(***************************************************************************)
(* Model of ups2_control.py: the UPS2Control driver of a BQ27441 fuel      *)
(* gauge over SMBus.  Every public method is a straight-line sequence of   *)
(* transport transactions; a method is modelled by the sequence of steps   *)
(* it performs, and the callers execute their current method one step at   *)
(* a time against the device.                                              *)
(***************************************************************************)
EXTENDS Integers, Sequences, FiniteSets, TLC

(* ---------------------------------------------------------------------- *)
(* Register map and sub-commands (decimal; the source gives them in hex).  *)
(* ---------------------------------------------------------------------- *)
BQ27441_UNSEAL_KEY == 32768
BQ27441_COMMAND_CONTROL == 0
BQ27441_COMMAND_TEMP == 2
BQ27441_COMMAND_VOLTAGE == 4
BQ27441_COMMAND_FLAGS == 6
BQ27441_COMMAND_NOM_CAPACITY == 8
BQ27441_COMMAND_AVAIL_CAPACITY == 10
BQ27441_COMMAND_REM_CAPACITY == 12
BQ27441_COMMAND_FULL_CAPACITY == 14
BQ27441_COMMAND_AVG_CURRENT == 16
BQ27441_COMMAND_STDBY_CURRENT == 18
BQ27441_COMMAND_MAX_CURRENT == 20
BQ27441_COMMAND_AVG_POWER == 24
BQ27441_COMMAND_SOC == 28
BQ27441_COMMAND_INT_TEMP == 30
BQ27441_COMMAND_SOH == 32
BQ27441_COMMAND_REM_CAP_UNFL == 40
BQ27441_COMMAND_REM_CAP_FIL == 42
BQ27441_COMMAND_FULL_CAP_UNFL == 44
BQ27441_COMMAND_FULL_CAP_FIL == 46
BQ27441_COMMAND_SOC_UNFL == 48
BQ27441_COMMAND_TRUEREM_CAPACITY == 106

BQ27441_CONTROL_STATUS == 0
BQ27441_CONTROL_DEVICE_TYPE == 1
BQ27441_CONTROL_FW_VERSION == 2
BQ27441_CONTROL_DM_CODE == 4
BQ27441_CONTROL_CHEM_ID == 8
BQ27441_CONTROL_SET_CFGUPDATE == 19
BQ27441_CONTROL_SEALED == 32
BQ27441_CONTROL_SOFT_RESET == 66
BQ27441_CONTROL_EXIT_CFGUPDATE == 67

BQ27441_EXTENDED_CAPACITY == 60
BQ27441_EXTENDED_DATACLASS == 62
BQ27441_EXTENDED_DATABLOCK == 63
BQ27441_EXTENDED_BLOCKDATA == 64
BQ27441_EXTENDED_CHECKSUM == 96
BQ27441_EXTENDED_CONTROL == 97

BQ27441_ID_STATE == 82

\* Literals of writeCap: the block length read, the two edited offsets and the
\* two register addresses the capacity bytes are written to.
BlockLen == 32
OffsetHigh == 10
OffsetLow == 11
RegCapHigh == 74
RegCapLow == 75

(* ---------------------------------------------------------------------- *)
(* Bounds of the model.                                                    *)
(* ---------------------------------------------------------------------- *)
\* How many of the sample capacities callers may pass.
NumCaps == 2
\* How many of the sample block contents the device may start with.
NumBlocks == 2
\* How many of the sample telemetry register files the device may hold.
NumRegFiles == 2
\* How many method calls a run makes.
MaxCalls == 3

CapSamples == <<2500, 8000, 65535, 1, 256>>
Caps == {CapSamples[i] : i \in 1..NumCaps}

BlockSamples ==
    << [i \in 1..BlockLen |-> 0],
       [i \in 1..BlockLen |-> (7 * i + 3) % 256],
       [i \in 1..BlockLen |-> 255],
       [i \in 1..BlockLen |-> IF i = 1 THEN 1 ELSE 0] >>
Blocks == {BlockSamples[i] : i \in 1..NumBlocks}

Threads == {1, 2}

(* ---------------------------------------------------------------------- *)
(* Pure helpers: Python integer arithmetic and struct decoding.            *)
(* ---------------------------------------------------------------------- *)
RECURSIVE SumSeq(_)
\* Python sum(block).
SumSeq(s) == IF s = <<>> THEN 0 ELSE Head(s) + SumSeq(Tail(s))

\* Python ~x on an int.
Invert(x) == (-x) - 1

\* Python x & 0xFF on an int of either sign (two's complement of any width).
AndFF(x) == x % 256

\* A shift by seven bits instead of eight.
ShiftRight7(x) == x \div 128

\* Python cap >> 8.
ShiftRight8(x) == x \div 256

\* A checksum masked with 0x7F instead of 0xFF.
ChecksumMask7F(block) == ((-SumSeq(block)) - 1) % 128

\* A checksum that forgets the complement: sum(block) & 0xFF.
ChecksumNoInvert(block) == AndFF(SumSeq(block))

\* new_checksum = ~sum(block) & 0xFF
Checksum(block) == AndFF(Invert(SumSeq(block)))

\* block[off] = v on a Python list (0-based offsets).
SetByte(block, off, v) == [block EXCEPT ![off + 1] = v]

\* An edit that stores the capacity low byte first.
EditBlockLowFirst(block, cap) ==
    [block EXCEPT ![OffsetHigh + 1] = cap % 256, ![OffsetLow + 1] = cap \div 256]

\* The local edit of writeCap: block[0x0a] = cap >> 8; block[0x0b] = cap & 0xFF.
EditBlock(block, cap) ==
    SetByte(SetByte(block, OffsetHigh, ShiftRight8(cap)), OffsetLow, AndFF(cap))

\* An unpack with the high byte first ('>H').
UnpackHBigEndian(b) == 256 * b[1] + b[2]

\* struct.unpack('H', bytes[0:2]) on a little-endian host.
UnpackH(b) == b[1] + 256 * b[2]

\* struct.unpack('h', bytes[0:2]) on a little-endian host.
Unpackh(b) == IF UnpackH(b) >= 32768 THEN UnpackH(b) - 65536 ELSE UnpackH(b)

\* How a read's two bytes become the value a method stores.
Decode(fmt, b) ==
    CASE fmt = "H" -> UnpackH(b)
      [] fmt = "h" -> Unpackh(b)
      [] fmt = "soh" -> UnpackH(b) % 256
      [] OTHER -> 0

(* ---------------------------------------------------------------------- *)
(* Steps of a method.  A step is one transport transaction, or the raise   *)
(* of a NameError by the evaluation of an undefined bare name.             *)
(* ---------------------------------------------------------------------- *)
Step(k, reg, val, len, key, fmt) ==
    [k |-> k, reg |-> reg, val |-> val, len |-> len, key |-> key, fmt |-> fmt]

write_word_data(reg, val) == Step("write_word_data", reg, val, 0, "", "")
write_byte_data(reg, val) == Step("write_byte_data", reg, val, 0, "", "")
read_word_data(reg) == Step("read_word_data", reg, 0, 2, "ret", "H")
read_i2c_block_data(reg, len, key, fmt) == Step("read_i2c_block_data", reg, 0, len, key, fmt)
NameError(name) == Step("NameError", 0, 0, 0, name, "")

IsWrite(e) == e.k \in {"write_word_data", "write_byte_data"}
IsRead(e) == e.k \in {"read_word_data", "read_i2c_block_data"}
IsBus(e) == IsWrite(e) \/ IsRead(e)

(* ---------------------------------------------------------------------- *)
(* Register access layer.                                                  *)
(* ---------------------------------------------------------------------- *)
readControlWord(cmd) ==
    << write_word_data(BQ27441_COMMAND_CONTROL, cmd),
       read_word_data(BQ27441_COMMAND_CONTROL) >>

executeControlWord(cmd) == << write_word_data(BQ27441_COMMAND_CONTROL, cmd) >>

writeExtendedCommand(addr, val) == << write_byte_data(addr, val) >>

\* A typed read that first writes the register number to the control register,
\* the way readControlWord does.
get_status_u_via_control(reg, key) ==
    << write_word_data(BQ27441_COMMAND_CONTROL, reg),
       read_i2c_block_data(reg, 2, key, "H") >>

get_status_u(reg, key) == << read_i2c_block_data(reg, 2, key, "H") >>

\* A signed read that unpacks with 'H', as get_status_u does.
get_status_unsigned(reg, key) == << read_i2c_block_data(reg, 2, key, "H") >>

get_status(reg, key) == << read_i2c_block_data(reg, 2, key, "h") >>

(* ---------------------------------------------------------------------- *)
(* Security and configuration protocol.                                    *)
(* ---------------------------------------------------------------------- *)
device_id == readControlWord(BQ27441_CONTROL_DEVICE_TYPE)
dm_id == readControlWord(BQ27441_CONTROL_DM_CODE)
fw_version == readControlWord(BQ27441_CONTROL_FW_VERSION)
chem_id == readControlWord(BQ27441_CONTROL_CHEM_ID)
controlStatus == readControlWord(BQ27441_CONTROL_STATUS)

softReset == executeControlWord(BQ27441_CONTROL_SOFT_RESET)
setConfigUpdate == executeControlWord(BQ27441_CONTROL_SET_CFGUPDATE)
exitConfigUpdate == executeControlWord(BQ27441_CONTROL_EXIT_CFGUPDATE)
seal == executeControlWord(BQ27441_CONTROL_SEALED)

\* An unseal that writes the key once only.
unseal_once == executeControlWord(BQ27441_UNSEAL_KEY)

unseal ==
    executeControlWord(BQ27441_UNSEAL_KEY) \o executeControlWord(BQ27441_UNSEAL_KEY)

\* A writeCap that never enters config-update mode.
writeCap_no_config_update(cap, new_checksum) ==
    unseal
    \o writeExtendedCommand(BQ27441_EXTENDED_CONTROL, 0)
    \o writeExtendedCommand(BQ27441_EXTENDED_DATACLASS, BQ27441_ID_STATE)
    \o writeExtendedCommand(BQ27441_EXTENDED_DATABLOCK, 0)
    \o << read_i2c_block_data(BQ27441_EXTENDED_BLOCKDATA, BlockLen, "block", "32B") >>
    \o << write_byte_data(RegCapHigh, ShiftRight8(cap)) >>
    \o << write_byte_data(RegCapLow, AndFF(cap)) >>
    \o << write_byte_data(BQ27441_EXTENDED_CHECKSUM, new_checksum) >>
    \o << NameError("softReset") >>

\* A writeCap that writes the capacity bytes one register too far (0x4b, 0x4c).
writeCap_shifted_registers(cap, new_checksum) ==
    unseal
    \o setConfigUpdate
    \o writeExtendedCommand(BQ27441_EXTENDED_CONTROL, 0)
    \o writeExtendedCommand(BQ27441_EXTENDED_DATACLASS, BQ27441_ID_STATE)
    \o writeExtendedCommand(BQ27441_EXTENDED_DATABLOCK, 0)
    \o << read_i2c_block_data(BQ27441_EXTENDED_BLOCKDATA, BlockLen, "block", "32B") >>
    \o << write_byte_data(RegCapHigh + 1, ShiftRight8(cap)) >>
    \o << write_byte_data(RegCapLow + 1, AndFF(cap)) >>
    \o << write_byte_data(BQ27441_EXTENDED_CHECKSUM, new_checksum) >>
    \o << NameError("softReset") >>

\* writeCap(cap): new_checksum is the local value computed after the block read
\* (0 until then; the step that uses it comes after the read).  The bare name
\* softReset on line 289 is not a global of the module: evaluating it raises
\* NameError, so lines 290 and 292 are never reached.
writeCap(cap, new_checksum) ==
    unseal
    \o setConfigUpdate
    \o writeExtendedCommand(BQ27441_EXTENDED_CONTROL, 0)
    \o writeExtendedCommand(BQ27441_EXTENDED_DATACLASS, BQ27441_ID_STATE)
    \o writeExtendedCommand(BQ27441_EXTENDED_DATABLOCK, 0)
    \o << read_i2c_block_data(BQ27441_EXTENDED_BLOCKDATA, BlockLen, "block", "32B") >>
    \o << write_byte_data(RegCapHigh, ShiftRight8(cap)) >>
    \o << write_byte_data(RegCapLow, AndFF(cap)) >>
    \o << write_byte_data(BQ27441_EXTENDED_CHECKSUM, new_checksum) >>
    \o << NameError("softReset") >>

\* __init__(battery_cap): line 179 passes the bare name MY_BATTERY_CAP, which is
\* not a global of the module (only self.MY_BATTERY_CAP is set): evaluating the
\* argument raises NameError before writeCap is entered.
init(battery_cap) == << NameError("MY_BATTERY_CAP") >>

(* ---------------------------------------------------------------------- *)
(* Telemetry.                                                              *)
(* ---------------------------------------------------------------------- *)
availCap == << read_i2c_block_data(BQ27441_COMMAND_AVAIL_CAPACITY, 2, "ret", "H") >>
desCap == << read_i2c_block_data(BQ27441_EXTENDED_CAPACITY, 2, "ret", "H") >>
voltage == << read_i2c_block_data(BQ27441_COMMAND_VOLTAGE, 2, "ret", "H") >>
soc == << read_i2c_block_data(BQ27441_COMMAND_SOC, 2, "ret", "H") >>

\* soh(): get_status_u(SOH) & 0x00FF
soh(key) == [i \in {1} |-> [get_status_u(BQ27441_COMMAND_SOH, key)[i] EXCEPT !.fmt = "soh"]]

get_all_info ==
    get_status_u(BQ27441_COMMAND_CONTROL, "status_control")
    \o get_status_u(BQ27441_COMMAND_TEMP, "status_temp")
    \o get_status_u(BQ27441_COMMAND_VOLTAGE, "status_voltage")
    \o get_status_u(BQ27441_COMMAND_NOM_CAPACITY, "status_nom_capacity")
    \o get_status_u(BQ27441_COMMAND_AVAIL_CAPACITY, "status_avail_capacity")
    \o get_status_u(BQ27441_COMMAND_REM_CAPACITY, "status_rem_capacity")
    \o get_status_u(BQ27441_COMMAND_FULL_CAPACITY, "status_full_capacity")
    \o get_status(BQ27441_COMMAND_AVG_CURRENT, "status_avg_current")
    \o get_status(BQ27441_COMMAND_STDBY_CURRENT, "status_stdby_current")
    \o get_status(BQ27441_COMMAND_MAX_CURRENT, "status_max_current")
    \o get_status(BQ27441_COMMAND_AVG_POWER, "status_avg_power")
    \o get_status_u(BQ27441_COMMAND_SOC, "status_soc")
    \o get_status_u(BQ27441_COMMAND_INT_TEMP, "status_int_temp")
    \o soh("status_soh")
    \o get_status_u(BQ27441_COMMAND_REM_CAP_UNFL, "status_rem_cap_unfil")
    \o get_status_u(BQ27441_COMMAND_REM_CAP_FIL, "status_rem_cap_fil")
    \o get_status_u(BQ27441_COMMAND_FULL_CAP_UNFL, "status_full_cap_unfil")
    \o get_status_u(BQ27441_COMMAND_FULL_CAP_FIL, "status_full_cap_fil")
    \o get_status_u(BQ27441_COMMAND_SOC_UNFL, "status_soc_unfl")
    \o get_status_u(BQ27441_COMMAND_TRUEREM_CAPACITY, "status_truerem_capacity")

get_basic_info ==
    get_status_u(BQ27441_COMMAND_SOC, "battery_soc")
    \o get_status_u(BQ27441_COMMAND_VOLTAGE, "battery_voltage")
    \o get_status(BQ27441_COMMAND_AVG_CURRENT, "battery_current")
    \o soh("battery_soh")

TelemetryOps ==
    {"availCap", "desCap", "voltage", "soc", "soh", "get_all_info", "get_basic_info"}
SnapshotOps == {"get_all_info", "get_basic_info"}
ControlReadOps == {"device_id", "dm_id", "fw_version", "chem_id", "controlStatus"}
ControlExecOps == {"softReset", "setConfigUpdate", "exitConfigUpdate", "seal", "unseal"}
CapOps == {"writeCap", "__init__"}
Ops == TelemetryOps \cup ControlReadOps \cup ControlExecOps \cup CapOps

\* The steps of method op called with capacity cap, given the caller's local
\* new_checksum.
Program(op, cap, new_checksum) ==
    CASE op = "writeCap" -> writeCap(cap, new_checksum)
      [] op = "__init__" -> init(cap)
      [] op = "unseal" -> unseal
      [] op = "seal" -> seal
      [] op = "setConfigUpdate" -> setConfigUpdate
      [] op = "exitConfigUpdate" -> exitConfigUpdate
      [] op = "softReset" -> softReset
      [] op = "device_id" -> device_id
      [] op = "dm_id" -> dm_id
      [] op = "fw_version" -> fw_version
      [] op = "chem_id" -> chem_id
      [] op = "controlStatus" -> controlStatus
      [] op = "availCap" -> availCap
      [] op = "desCap" -> desCap
      [] op = "voltage" -> voltage
      [] op = "soc" -> soc
      [] op = "soh" -> soh("ret")
      [] op = "get_all_info" -> get_all_info
      [] op = "get_basic_info" -> get_basic_info
      [] OTHER -> <<>>

(* ---------------------------------------------------------------------- *)
(* State.                                                                  *)
(* ---------------------------------------------------------------------- *)
VARIABLES
    dev,     \* the chip: security state, config-update flag, block RAM, registers
    th,      \* per caller: the method it runs, its position, locals and bus trace
    mutex,   \* whether the callers serialize whole methods under an external lock
    owner,   \* the caller holding the external lock (0: none)
    calls,   \* how many method calls have been made
    callers, \* the callers that share the device handle in this run
    menu,    \* the methods the callers of this run invoke
    capset   \* the capacities the callers of this run pass

vars == <<dev, th, mutex, owner, calls, callers, menu, capset>>

TelemetryRegs ==
    { BQ27441_COMMAND_CONTROL, BQ27441_COMMAND_TEMP, BQ27441_COMMAND_VOLTAGE,
      BQ27441_COMMAND_NOM_CAPACITY, BQ27441_COMMAND_AVAIL_CAPACITY,
      BQ27441_COMMAND_REM_CAPACITY, BQ27441_COMMAND_FULL_CAPACITY,
      BQ27441_COMMAND_AVG_CURRENT, BQ27441_COMMAND_STDBY_CURRENT,
      BQ27441_COMMAND_MAX_CURRENT, BQ27441_COMMAND_AVG_POWER, BQ27441_COMMAND_SOC,
      BQ27441_COMMAND_INT_TEMP, BQ27441_COMMAND_SOH, BQ27441_COMMAND_REM_CAP_UNFL,
      BQ27441_COMMAND_REM_CAP_FIL, BQ27441_COMMAND_FULL_CAP_UNFL,
      BQ27441_COMMAND_FULL_CAP_FIL, BQ27441_COMMAND_SOC_UNFL,
      BQ27441_COMMAND_TRUEREM_CAPACITY, BQ27441_EXTENDED_CAPACITY }

\* Sample contents of the 2-byte registers, as the byte pairs the bus returns.
RegFileSamples ==
    << [r \in TelemetryRegs |->
          CASE r = BQ27441_COMMAND_VOLTAGE -> <<116, 14>>
            [] r = BQ27441_COMMAND_AVG_CURRENT -> <<106, 255>>
            [] r = BQ27441_COMMAND_SOC -> <<78, 0>>
            [] r = BQ27441_COMMAND_SOH -> <<95, 1>>
            [] OTHER -> <<100, 0>>],
       [r \in TelemetryRegs |-> <<255, 255>>],
       [r \in TelemetryRegs |-> <<0, 128>>],
       [r \in TelemetryRegs |->
          IF r \in {BQ27441_COMMAND_AVG_CURRENT, BQ27441_COMMAND_STDBY_CURRENT,
                    BQ27441_COMMAND_MAX_CURRENT, BQ27441_COMMAND_AVG_POWER}
          THEN <<255, 255>> ELSE <<100, 0>>] >>
RegFiles == {RegFileSamples[i] : i \in 1..NumRegFiles}

BlockDataRegs == BQ27441_EXTENDED_BLOCKDATA .. (BQ27441_EXTENDED_BLOCKDATA + BlockLen - 1)

(* ---------------------------------------------------------------------- *)
(* The chip.  It is hardware, not code of the repository: its reaction to  *)
(* a transaction follows the state machine of the specification (Sealed,   *)
(* Unsealed, ConfigUpdate; the key written twice in a row unseals).        *)
(* ---------------------------------------------------------------------- *)
\* The checksum the chip expects for its block: 255 minus the low byte of the sum.
DeviceChecksum(data) == 255 - (SumSeq(data) % 256)

DeviceControl(d, cmd) ==
    CASE cmd = BQ27441_UNSEAL_KEY ->
            IF ~d.sealed THEN d
            ELSE IF d.keys = 1 THEN [d EXCEPT !.sealed = FALSE, !.keys = 0]
            ELSE [d EXCEPT !.keys = 1]
      [] cmd = BQ27441_CONTROL_SET_CFGUPDATE ->
            IF d.sealed THEN [d EXCEPT !.keys = 0] ELSE [d EXCEPT !.cfg = TRUE]
      [] cmd \in {BQ27441_CONTROL_EXIT_CFGUPDATE, BQ27441_CONTROL_SOFT_RESET} ->
            [d EXCEPT !.cfg = FALSE, !.keys = 0]
      [] cmd = BQ27441_CONTROL_SEALED ->
            [d EXCEPT !.sealed = TRUE, !.keys = 0]
      [] OTHER -> [d EXCEPT !.keys = 0]

DeviceWriteByte(d, reg, val) ==
    CASE reg = BQ27441_EXTENDED_CONTROL -> [d EXCEPT !.ctl = val]
      [] reg = BQ27441_EXTENDED_DATACLASS -> [d EXCEPT !.cls = val]
      [] reg = BQ27441_EXTENDED_DATABLOCK -> [d EXCEPT !.blk = val]
      [] reg \in BlockDataRegs ->
            IF d.sealed THEN d
            ELSE [d EXCEPT !.data[reg - BQ27441_EXTENDED_BLOCKDATA + 1] = val]
      [] reg = BQ27441_EXTENDED_CHECKSUM ->
            IF d.sealed THEN d
            ELSE [d EXCEPT !.csum = IF val = DeviceChecksum(d.data) THEN "ok" ELSE "bad"]
      [] OTHER -> d

\* The chip after a transaction that the transport completed.
DeviceApply(d, s) ==
    CASE s.k = "write_word_data" /\ s.reg = BQ27441_COMMAND_CONTROL -> DeviceControl(d, s.val)
      [] s.k = "write_byte_data" -> DeviceWriteByte(d, s.reg, s.val)
      [] OTHER -> d

\* The bytes a completed read returns.
DeviceRead(d, s) ==
    IF s.reg = BQ27441_EXTENDED_BLOCKDATA /\ s.len = BlockLen THEN d.data
    ELSE IF s.reg \in TelemetryRegs THEN d.regs[s.reg]
    ELSE <<0, 0>>

(* ---------------------------------------------------------------------- *)
(* A caller's frame.                                                       *)
(* ---------------------------------------------------------------------- *)
Snapshot(d) == [sealed |-> d.sealed, cfg |-> d.cfg]

Idle ==
    [op |-> "", cap |-> 0, pc |-> 1, status |-> "idle", exc |-> "",
     block |-> <<>>, new_checksum |-> 0, info |-> <<>>, ret |-> <<>>,
     trace |-> <<>>, start |-> Snapshot([sealed |-> TRUE, cfg |-> FALSE]),
     end |-> Snapshot([sealed |-> TRUE, cfg |-> FALSE])]

\* The frame of a method that has just been entered, the chip being in state d.
Enter(op, cap, d) ==
    [Idle EXCEPT !.op = op, !.cap = cap, !.status = "running", !.start = Snapshot(d)]

\* The steps of the method frame f runs, and the step it is at.
Steps(f) == Program(f.op, f.cap, f.new_checksum)
AtEnd(f) == f.pc > Len(Steps(f))
Current(f) == Steps(f)[f.pc]

\* What the trace keeps of a transaction: the step, whether the transport
\* completed it, and the state of the chip when it was issued.
Entry(s, ok, d) ==
    [k |-> s.k, reg |-> s.reg, val |-> s.val, ok |-> ok,
     sealed |-> d.sealed, cfg |-> d.cfg,
     devsum |-> IF s.reg = BQ27441_EXTENDED_CHECKSUM THEN DeviceChecksum(d.data) ELSE 0]

\* The frame after the transport completed step s and (for a read) returned
\* bytes.  The 32-byte read of writeCap is followed by the local edit and the
\* checksum (lines 275-278); a 2-byte read stores its decoded value.
Completed(f, s, bytes, d) ==
    LET g == [f EXCEPT !.pc = f.pc + 1, !.trace = Append(f.trace, Entry(s, TRUE, d))]
    IN  IF ~IsRead(s) THEN g
        ELSE IF s.key = "block"
        THEN [g EXCEPT !.block = EditBlock(bytes, f.cap),
                       !.new_checksum = Checksum(EditBlock(bytes, f.cap))]
        ELSE [g EXCEPT !.info = Append(f.info, [key |-> s.key, val |-> Decode(s.fmt, bytes)])]

\* A handler that swallows the error and leaves the method at the same step, so
\* that the transaction is issued again.
TransportFailureRetried(f, s, d) ==
    [f EXCEPT !.trace = Append(f.trace, Entry(s, FALSE, d))]

\* The frame after the transport raised on step s: no method has a handler, so
\* the IOError leaves the method at once and reaches the caller.
TransportFailure(f, s, d) ==
    [f EXCEPT !.status = "raised", !.exc = "IOError",
              !.trace = Append(f.trace, Entry(s, FALSE, d)), !.end = Snapshot(d)]

\* The frame after a bare name failed to resolve.
NameFailure(f, d) == [f EXCEPT !.status = "raised", !.exc = "NameError", !.end = Snapshot(d)]

\* The frame after the method ran off its last statement.
Returned(f, d) == [f EXCEPT !.status = "returned", !.ret = f.info, !.end = Snapshot(d)]

\* The external lock is released when the method leaves, however it leaves.
Release(t, f) == IF f.status = "running" THEN owner ELSE 0

(* ---------------------------------------------------------------------- *)
(* Initial state and actions.                                              *)
(* ---------------------------------------------------------------------- *)
Init ==
    /\ \E b \in Blocks, r \in RegFiles :
          dev = [sealed |-> TRUE, cfg |-> FALSE, keys |-> 0, ctl |-> 0, cls |-> 0,
                 blk |-> 0, data |-> b, csum |-> "none", regs |-> r]
    /\ th = [t \in Threads |-> Idle]
    /\ mutex = TRUE
    /\ owner = 0
    /\ calls = 0
    /\ callers = {1}
    /\ menu = Ops
    /\ capset = Caps

\* Two callers share the handle, with or without an external lock around each
\* method; each of them makes one call, of writeCap or of seal.
InitShared ==
    /\ \E b \in Blocks :
          dev = [sealed |-> TRUE, cfg |-> FALSE, keys |-> 0, ctl |-> 0, cls |-> 0,
                 blk |-> 0, data |-> b, csum |-> "none", regs |-> RegFileSamples[1]]
    /\ th = [t \in Threads |-> Idle]
    /\ mutex \in BOOLEAN
    /\ owner = 0
    /\ calls = 0
    /\ callers = Threads
    /\ menu = {"writeCap", "seal"}
    /\ capset = Caps

\* Inputs over which the arithmetic of the driver is exercised: byte values,
\* blocks that differ from a uniform block in one position, capacities over
\* the whole 16-bit range, and register files of uniform byte pairs.
ByteSamples == {0, 1, 100, 127, 128, 255}
PosSamples == {1, OffsetHigh, OffsetHigh + 1, OffsetLow + 1, OffsetLow + 2, BlockLen}
WideBlocks ==
    { [i \in 1..BlockLen |-> IF i = p THEN v ELSE w] :
        p \in PosSamples, v \in ByteSamples, w \in {0, 7, 255} }
WideCaps == {1, 255, 256, 2500, 8000, 32767, 32768, 65280, 65535}
WideRegFiles ==
    { [r \in TelemetryRegs |-> <<b0, b1>>] : b0 \in ByteSamples, b1 \in ByteSamples }
        \cup {RegFileSamples[i] : i \in 1..Len(RegFileSamples)}

\* One caller makes one call: writeCap on any of the wide blocks with any of
\* the wide capacities, or a snapshot on any of the wide register files.
InitInputs ==
    /\ \/ /\ \E b \in WideBlocks :
                dev = [sealed |-> TRUE, cfg |-> FALSE, keys |-> 0, ctl |-> 0, cls |-> 0,
                       blk |-> 0, data |-> b, csum |-> "none", regs |-> RegFileSamples[1]]
          /\ menu = {"writeCap"}
          /\ capset = WideCaps
       \/ /\ \E r \in WideRegFiles :
                dev = [sealed |-> TRUE, cfg |-> FALSE, keys |-> 0, ctl |-> 0, cls |-> 0,
                       blk |-> 0, data |-> BlockSamples[1], csum |-> "none", regs |-> r]
          /\ menu = SnapshotOps
          /\ capset = {}
    /\ th = [t \in Threads |-> Idle]
    /\ mutex = TRUE
    /\ owner = 0
    /\ calls = MaxCalls - 1
    /\ callers = {1}

\* Whether caller t may make another call in this run.
MayCall(t) == calls < MaxCalls /\ (callers = Threads => th[t].status = "idle")

\* The frame of a finished call once its record is dropped.
Dropped == [Idle EXCEPT !.status = "done"]

\* Caller t enters a method.  The records of finished calls are dropped, so the
\* state keeps the running calls and the last one finished.
Call(t) ==
    /\ th[t].status # "running"
    /\ MayCall(t)
    /\ mutex => owner = 0
    /\ \E op \in menu :
         \E cap \in (IF op \in CapOps THEN capset ELSE {0}) :
            th' = [u \in Threads |->
                      IF u = t THEN Enter(op, cap, dev)
                      ELSE IF th[u].status \in {"running", "idle"} THEN th[u] ELSE Dropped]
    /\ owner' = IF mutex THEN t ELSE 0
    /\ calls' = calls + 1
    /\ UNCHANGED <<dev, mutex, callers, menu, capset>>

\* The transaction caller t is at completes.
TransactOk(t) ==
    /\ th[t].status = "running"
    /\ ~AtEnd(th[t])
    /\ IsBus(Current(th[t]))
    /\ LET s == Current(th[t])
       IN  /\ th' = [th EXCEPT ![t] = Completed(th[t], s, DeviceRead(dev, s), dev)]
           /\ dev' = DeviceApply(dev, s)
    /\ UNCHANGED <<mutex, owner, calls, callers, menu, capset>>

\* The transaction caller t is at fails in the transport: the chip does not
\* take it.
TransactFail(t) ==
    /\ th[t].status = "running"
    /\ ~AtEnd(th[t])
    /\ IsBus(Current(th[t]))
    /\ th' = [th EXCEPT ![t] = TransportFailure(th[t], Current(th[t]), dev)]
    /\ owner' = Release(t, th'[t])
    /\ UNCHANGED <<dev, mutex, calls, callers, menu, capset>>

\* Caller t evaluates a bare name that is no global.
RaiseNameError(t) ==
    /\ th[t].status = "running"
    /\ ~AtEnd(th[t])
    /\ Current(th[t]).k = "NameError"
    /\ th' = [th EXCEPT ![t] = NameFailure(th[t], dev)]
    /\ owner' = 0
    /\ UNCHANGED <<dev, mutex, calls, callers, menu, capset>>

\* Caller t's method returns.
Return(t) ==
    /\ th[t].status = "running"
    /\ AtEnd(th[t])
    /\ th' = [th EXCEPT ![t] = Returned(th[t], dev)]
    /\ owner' = 0
    /\ UNCHANGED <<dev, mutex, calls, callers, menu, capset>>

Next ==
    \/ \E t \in callers : Call(t)
    \/ \E t \in callers : TransactOk(t)
    \/ \E t \in callers : TransactFail(t)
    \/ \E t \in callers : RaiseNameError(t)
    \/ \E t \in callers : Return(t)

Spec == Init /\ [][Next]_vars

SpecShared == InitShared /\ [][Next]_vars

SpecInputs == InitInputs /\ [][Next]_vars

TypeOK ==
    /\ dev.sealed \in BOOLEAN /\ dev.cfg \in BOOLEAN /\ dev.keys \in 0..1
    /\ Len(dev.data) = BlockLen
    /\ \A i \in 1..BlockLen : dev.data[i] \in 0..255
    /\ owner \in {0} \cup Threads
    /\ calls \in 0..MaxCalls
    /\ \A t \in Threads : th[t].status \in {"idle", "running", "returned", "raised", "done"}

(* ---------------------------------------------------------------------- *)
(* Vocabulary of the properties.                                           *)
(* ---------------------------------------------------------------------- *)
Frames == {th[t] : t \in Threads}
Finished(f) == f.status \in {"returned", "raised"}
AllOk(f) == \A i \in 1..Len(f.trace) : f.trace[i].ok
Issued(f) == [i \in 1..Len(f.trace) |-> <<f.trace[i].k, f.trace[i].reg, f.trace[i].val>>]

IsControl(e, cmd) ==
    e.k = "write_word_data" /\ e.reg = BQ27441_COMMAND_CONTROL /\ e.val = cmd
IsCapWrite(e) == e.k = "write_byte_data" /\ e.reg \in {RegCapHigh, RegCapLow}
IsChecksumWrite(e) == e.k = "write_byte_data" /\ e.reg = BQ27441_EXTENDED_CHECKSUM

\* The order of bus operations the specification gives for write_design_capacity.
DocumentedOrder(cap, checksum) ==
    << <<"write_word_data", BQ27441_COMMAND_CONTROL, BQ27441_UNSEAL_KEY>>,
       <<"write_word_data", BQ27441_COMMAND_CONTROL, BQ27441_UNSEAL_KEY>>,
       <<"write_word_data", BQ27441_COMMAND_CONTROL, BQ27441_CONTROL_SET_CFGUPDATE>>,
       <<"write_byte_data", BQ27441_EXTENDED_DATACLASS, BQ27441_ID_STATE>>,
       <<"write_byte_data", BQ27441_EXTENDED_DATABLOCK, 0>>,
       <<"read_i2c_block_data", BQ27441_EXTENDED_BLOCKDATA, 0>>,
       <<"write_byte_data", BQ27441_EXTENDED_BLOCKDATA + OffsetHigh, cap \div 256>>,
       <<"write_byte_data", BQ27441_EXTENDED_BLOCKDATA + OffsetLow, cap % 256>>,
       <<"write_byte_data", BQ27441_EXTENDED_CHECKSUM, checksum>>,
       <<"write_word_data", BQ27441_COMMAND_CONTROL, BQ27441_CONTROL_EXIT_CFGUPDATE>>,
       <<"write_word_data", BQ27441_COMMAND_CONTROL, BQ27441_CONTROL_SEALED>> >>

(* ---------------------------------------------------------------------- *)
(* C1 to C10.                                                              *)
(* ---------------------------------------------------------------------- *)

\* C1: a call of writeCap that met no transport failure has issued exactly the
\* documented operations in the documented order: unseal key twice,
\* SET_CFGUPDATE, data class 0x52, block 0, the 32-byte read, capacity high,
\* capacity low, checksum, EXIT_CFGUPDATE, SEALED.
C1_DocumentedOrder ==
    \A f \in Frames :
        (f.op = "writeCap" /\ Finished(f) /\ AllOk(f))
            => Issued(f) = DocumentedOrder(f.cap, f.new_checksum)

\* C2: a call of writeCap that started on a Sealed device outside config-update
\* leaves the device Sealed and outside config-update when it returns or raises,
\* whichever step failed, if any.
C2_SealedOnEveryExit ==
    \A f \in Frames :
        (f.op = "writeCap" /\ Finished(f) /\ f.start.sealed /\ ~f.start.cfg)
            => (f.end.sealed /\ ~f.end.cfg)

\* C3: in a run of writeCap, EXIT_CFGUPDATE never follows a capacity byte write
\* without a checksum write in between, and every checksum write the run issues
\* comes after both capacity bytes and carries the ones-complement checksum of
\* the whole 32-byte block as it exists after the edit, in the local copy and in
\* the device.
C3_ChecksumBeforeExit ==
    \A f \in Frames :
        f.op = "writeCap" =>
            /\ \A i, j \in 1..Len(f.trace) :
                  (i < j /\ IsCapWrite(f.trace[i])
                         /\ IsControl(f.trace[j], BQ27441_CONTROL_EXIT_CFGUPDATE))
                     => \E k \in (i + 1)..(j - 1) :
                           /\ IsChecksumWrite(f.trace[k])
                           /\ f.trace[k].val = f.trace[k].devsum
            /\ \A k \in 1..Len(f.trace) :
                  IsChecksumWrite(f.trace[k]) =>
                     /\ f.trace[k].val = DeviceChecksum(f.block)
                     /\ f.trace[k].val = f.trace[k].devsum
                     /\ \E i, j \in 1..(k - 1) :
                           /\ f.trace[i].ok /\ f.trace[i].reg = RegCapHigh
                           /\ f.trace[j].ok /\ f.trace[j].reg = RegCapLow

\* A run of writeCap has written both capacity bytes and then the checksum.
C3_Witness ==
    \E f \in Frames :
        /\ f.op = "writeCap"
        /\ \E k \in 1..Len(f.trace) : IsChecksumWrite(f.trace[k]) /\ f.trace[k].ok
        /\ dev.csum = "ok"

\* C4: once the construction of a handle with capacity c is over, the device
\* block holds the two capacity bytes of c, the matching checksum has been
\* accepted, and the device is sealed again.
C4_ConstructionWritesCapacity ==
    \A f \in Frames :
        (f.op = "__init__" /\ Finished(f))
            => /\ dev.data[OffsetHigh + 1] = f.cap \div 256
               /\ dev.data[OffsetLow + 1] = f.cap % 256
               /\ dev.csum = "ok"
               /\ dev.sealed /\ ~dev.cfg

\* The call of writeCap in frame f ended on a transport failure of its
\* checksum write.
FailedAtChecksum(f) ==
    /\ f.op = "writeCap" /\ f.status = "raised" /\ f.trace # <<>>
    /\ IsChecksumWrite(f.trace[Len(f.trace)])
    /\ ~f.trace[Len(f.trace)].ok

\* C5: when the transport fails at the checksum write of writeCap, the call ends
\* with the transport's error, the device is Unsealed and in config-update mode,
\* and neither EXIT_CFGUPDATE nor SEALED has been put on the bus.
C5_ChecksumFailureLeavesOpen ==
    \A f \in Frames :
        FailedAtChecksum(f) =>
            /\ f.exc = "IOError"
            /\ ~f.end.sealed /\ f.end.cfg
            /\ ~dev.sealed /\ dev.cfg
            /\ \A i \in 1..Len(f.trace) :
                  /\ ~IsControl(f.trace[i], BQ27441_CONTROL_EXIT_CFGUPDATE)
                  /\ ~IsControl(f.trace[i], BQ27441_CONTROL_SEALED)

\* A call of writeCap on a Sealed device has failed at its checksum write.
C5_Witness == \E f \in Frames : FailedAtChecksum(f) /\ f.start.sealed /\ ~f.start.cfg

\* C6: SET_CFGUPDATE is never put on the bus while the device is Sealed, and a
\* call of setConfigUpdate on a Sealed device ends with UnexpectedStateError
\* without any bus write.
C6_NoConfigUpdateWhileSealed ==
    \A f \in Frames :
        /\ \A i \in 1..Len(f.trace) :
              IsControl(f.trace[i], BQ27441_CONTROL_SET_CFGUPDATE) => ~f.trace[i].sealed
        /\ (f.op = "setConfigUpdate" /\ f.start.sealed /\ Finished(f))
              => (f.exc = "UnexpectedStateError" /\ f.trace = <<>>)

\* Entry i of frame f is a completed transaction that corrupts the sequence: a
\* checksum that does not match the block the device holds at that moment, or a
\* block edit taken while the device is Sealed or outside config-update mode.
Corrupts(f, i) ==
    LET e == f.trace[i]
    IN  /\ f.op = "writeCap" /\ e.ok
        /\ \/ IsChecksumWrite(e) /\ e.val # e.devsum
           \/ IsCapWrite(e) /\ (e.sealed \/ ~e.cfg)

\* C7: when the callers serialize whole methods under one lock, no transaction
\* of writeCap corrupts the sequence.  (Without the lock a corrupting
\* transaction is reachable: C7_RaceCorrupts.)
C7_MutexSerializes ==
    mutex => \A f \in Frames : \A i \in 1..Len(f.trace) : ~Corrupts(f, i)

\* Two callers without a lock: one has written a checksum that does not match
\* the block the device holds, or has edited the block of a Sealed device.
C7_RaceCorrupts ==
    /\ ~mutex
    /\ \E f \in Frames : \E i \in 1..Len(f.trace) : Corrupts(f, i)

\* C8: a snapshot whose read of one field failed still returns: every field has
\* been read, and the fields whose read completed are returned.
C8_PartialSnapshot ==
    \A f \in Frames :
        (f.op \in SnapshotOps /\ Finished(f))
            => /\ f.status = "returned"
               /\ Len(f.trace) = Len(Steps(f))
               /\ Len(f.ret) = Cardinality({i \in 1..Len(f.trace) : f.trace[i].ok})

\* C9: no method retries.  The transactions a call has issued are the first
\* steps of its method, one transaction per step in the method's order; a
\* transaction that failed is the last one of the call, and the call has then
\* ended with the transport's error.
C9_NoRetry ==
    \A f \in Frames :
        /\ Len(f.trace) <= Len(Steps(f))
        /\ \A i \in 1..Len(f.trace) :
              /\ Issued(f)[i] = <<Steps(f)[i].k, Steps(f)[i].reg, Steps(f)[i].val>>
              /\ ~f.trace[i].ok => (i = Len(f.trace) /\ f.status = "raised" /\ f.exc = "IOError")
        /\ (f.status = "raised" /\ f.exc = "IOError")
              => (f.trace # <<>> /\ ~f.trace[Len(f.trace)].ok)

\* A call has issued several transactions and ended on the failure of the last.
C9_Witness ==
    \E f \in Frames :
        /\ f.status = "raised" /\ f.exc = "IOError"
        /\ Len(f.trace) >= 3 /\ Len(f.trace) < Len(Steps(f))
        /\ ~f.trace[Len(f.trace)].ok

\* C10: a step of a telemetry method leaves the device as it is, and the
\* transactions the method has issued are reads.
C10_TelemetryReadOnly ==
    [][\A t \in Threads :
          (th[t].op \in TelemetryOps /\ th[t].status = "running" /\ th'[t] # th[t])
             => /\ dev' = dev
                /\ \A i \in 1..Len(th'[t].trace) : IsRead(th'[t].trace[i])]_vars

\* A telemetry method has run to its end on a device that was Unsealed and in
\* config-update mode.
C10_Witness ==
    \E f \in Frames :
        /\ f.op \in TelemetryOps /\ f.status = "returned" /\ f.trace # <<>>
        /\ ~f.start.sealed /\ f.start.cfg
        /\ ~dev.sealed /\ dev.cfg

(* ---------------------------------------------------------------------- *)
(* C11 to C19.                                                             *)
(* ---------------------------------------------------------------------- *)

\* The value of a register's two bytes read as an unsigned 16-bit number, low
\* byte first, and the same value read as a two's complement number.
U16(b) == b[1] + 256 * b[2]
I16(b) == ((U16(b) + 32768) % 65536) - 32768

\* The mapping a frame returned, as a set of <<field, value>> pairs.
Mapping(f) == {<<f.ret[i].key, f.ret[i].val>> : i \in 1..Len(f.ret)}

\* C11: get_basic_info returns exactly four fields: the voltage and the state of
\* charge as the unsigned 16-bit values of their registers, the current as the
\* signed 16-bit value of the average-current register, and the state of health
\* as the low byte of its register; with registers 3700, -150, 78 and a low
\* byte of 95 the fields are 3700, -150, 78 and 95.
C11_BasicInfo ==
    \A f \in Frames :
        (f.op = "get_basic_info" /\ f.status = "returned") =>
            /\ Mapping(f) =
                  { <<"battery_voltage", U16(dev.regs[BQ27441_COMMAND_VOLTAGE])>>,
                    <<"battery_current", I16(dev.regs[BQ27441_COMMAND_AVG_CURRENT])>>,
                    <<"battery_soc", U16(dev.regs[BQ27441_COMMAND_SOC])>>,
                    <<"battery_soh", dev.regs[BQ27441_COMMAND_SOH][1]>> }
            /\ Len(f.ret) = 4
            /\ ( /\ dev.regs[BQ27441_COMMAND_VOLTAGE] = <<116, 14>>
                 /\ dev.regs[BQ27441_COMMAND_AVG_CURRENT] = <<106, 255>>
                 /\ dev.regs[BQ27441_COMMAND_SOC] = <<78, 0>>
                 /\ dev.regs[BQ27441_COMMAND_SOH][1] = 95 )
               => Mapping(f) = { <<"battery_voltage", 3700>>, <<"battery_current", -150>>,
                                 <<"battery_soc", 78>>, <<"battery_soh", 95>> }

\* get_basic_info has returned on the registers of the scenario, the high byte
\* of the state-of-health register being non-zero.
C11_Witness ==
    \E f \in Frames :
        /\ f.op = "get_basic_info" /\ f.status = "returned"
        /\ dev.regs[BQ27441_COMMAND_VOLTAGE] = <<116, 14>>
        /\ dev.regs[BQ27441_COMMAND_AVG_CURRENT] = <<106, 255>>
        /\ dev.regs[BQ27441_COMMAND_SOC] = <<78, 0>>
        /\ dev.regs[BQ27441_COMMAND_SOH] = <<95, 1>>

\* Entry i of frame f is a control command that is a legal transition of the
\* state the device was in when it was issued.  The key pair is one transition:
\* its first key is issued from Sealed and its second key follows at once.
LegalCommand(f, i) ==
    LET e == f.trace[i]
    IN  CASE IsControl(e, BQ27441_UNSEAL_KEY) ->
                \/ e.sealed /\ ~e.cfg
                \/ /\ i > 1
                   /\ IsControl(f.trace[i - 1], BQ27441_UNSEAL_KEY)
                   /\ f.trace[i - 1].sealed /\ f.trace[i - 1].ok
          [] IsControl(e, BQ27441_CONTROL_SET_CFGUPDATE) -> ~e.sealed /\ ~e.cfg
          [] IsControl(e, BQ27441_CONTROL_SEALED) -> ~e.sealed /\ ~e.cfg
          [] IsControl(e, BQ27441_CONTROL_EXIT_CFGUPDATE) -> e.cfg
          [] e.k = "write_word_data" /\ e.reg = BQ27441_COMMAND_CONTROL -> ~e.cfg
          [] OTHER -> TRUE

\* C12: in a call of writeCap by a single owner on a device that was Sealed and
\* outside config-update, every control command is a legal transition of the
\* device state at the moment it is issued: the key pair from Sealed,
\* SET_CFGUPDATE and SEALED from Unsealed outside config-update, and nothing
\* but EXIT_CFGUPDATE from ConfigUpdate.
C12_LegalTransitions ==
    \A f \in Frames :
        (f.op = "writeCap" /\ f.start.sealed /\ ~f.start.cfg)
            => \A i \in 1..Len(f.trace) : LegalCommand(f, i)

\* A call of writeCap on a Sealed device has issued the key pair and then
\* SET_CFGUPDATE, and the device has entered config-update mode.
C12_Witness ==
    \E f \in Frames :
        /\ f.op = "writeCap" /\ f.start.sealed /\ ~f.start.cfg
        /\ Len(f.trace) >= 3
        /\ IsControl(f.trace[3], BQ27441_CONTROL_SET_CFGUPDATE) /\ f.trace[3].ok
        /\ ~f.trace[3].sealed
        /\ dev.cfg

\* Entry e selects, reads or writes block data.
IsBlockAccess(e) ==
    \/ e.k = "write_byte_data"
         /\ e.reg \in ({BQ27441_EXTENDED_DATACLASS, BQ27441_EXTENDED_DATABLOCK,
                        BQ27441_EXTENDED_CHECKSUM} \cup BlockDataRegs)
    \/ e.k = "read_i2c_block_data" /\ e.reg \in BlockDataRegs

\* Entry e is a completed read of the flags register that showed CFGUPMODE.
ShowsConfigUpdate(e) == IsRead(e) /\ e.reg = BQ27441_COMMAND_FLAGS /\ e.ok /\ e.cfg

\* C13: in a call of writeCap, between SET_CFGUPDATE and any select, read or
\* write of block data lies a read of the flags register that showed the
\* CFGUPMODE bit set.
C13_PollBeforeEdit ==
    \A f \in Frames :
        f.op = "writeCap" =>
            \A i, j \in 1..Len(f.trace) :
                (i < j /\ IsControl(f.trace[i], BQ27441_CONTROL_SET_CFGUPDATE)
                       /\ IsBlockAccess(f.trace[j]))
                   => \E k \in (i + 1)..(j - 1) : ShowsConfigUpdate(f.trace[k])

\* A frame of writeCap that has read the block and computed its checksum.
HasChecksum(f) == f.op = "writeCap" /\ f.block # <<>>

\* C14: for every 32-byte block of byte values, the checksum writeCap computes
\* equals (0xFF - (sum(block) mod 256)) mod 256 and lies in 0..255.
C14_ChecksumFormula ==
    \A f \in Frames :
        HasChecksum(f) =>
            /\ Len(f.block) = BlockLen
            /\ \A i \in 1..BlockLen : f.block[i] \in 0..255
            /\ f.new_checksum = (255 - (SumSeq(f.block) % 256)) % 256
            /\ f.new_checksum \in 0..255

\* writeCap has computed the checksum of a block whose bytes sum to more than
\* one byte holds.
C14_Witness == \E f \in Frames : HasChecksum(f) /\ SumSeq(f.block) > 4096

\* C15: for every 32-byte block and every position, replacing the byte at that
\* position by any other byte value changes the checksum writeCap computes.
C15_SingleByteChange ==
    \A f \in Frames :
        (HasChecksum(f) /\ Len(f.trace) = 7) =>
            \A p \in 1..BlockLen : \A v \in 0..255 :
                v # f.block[p] => Checksum([f.block EXCEPT ![p] = v]) # f.new_checksum

\* writeCap has just computed the checksum of a block that holds the byte 0 and
\* the byte 128, which differ by half the range of a byte.
C15_Witness ==
    \E f \in Frames :
        /\ HasChecksum(f) /\ Len(f.trace) = 7
        /\ \E p, q \in 1..BlockLen : f.block[p] = 0 /\ f.block[q] = 128

\* The block of frame f is zero outside the two capacity bytes, as it is after
\* the edit of an all-zero block.
EditedZeroBlock(f) ==
    /\ HasChecksum(f)
    /\ \A i \in 1..BlockLen : i \notin {OffsetHigh + 1, OffsetLow + 1} => f.block[i] = 0

\* C16 as stated: with an all-zero block and capacity 2500, the edited block
\* has byte[0x0A] = 0x09 and byte[0x0B] = 0xC4 and the checksum is 0x22.
C16_ScenarioAsStated ==
    \A f \in Frames :
        (EditedZeroBlock(f) /\ f.cap = 2500) =>
            (f.block[11] = 9 /\ f.block[12] = 196 /\ f.new_checksum = 34)

\* C16 amended: with an all-zero block and capacity 2500, the edited block has
\* byte[0x0A] = 0x09 and byte[0x0B] = 0xC4 and the checksum is 0x32.
C16_Scenario ==
    \A f \in Frames :
        (EditedZeroBlock(f) /\ f.cap = 2500) =>
            (f.block[11] = 9 /\ f.block[12] = 196 /\ f.new_checksum = 50)

\* writeCap(2500) has read an all-zero block from a fresh device and edited it.
C16_Witness ==
    \E f \in Frames :
        /\ EditedZeroBlock(f) /\ f.cap = 2500 /\ calls = 1
        /\ \A i \in 1..BlockLen : dev.data[i] = 0

\* C17: for every capacity in 1..65535, the high and low bytes writeCap writes
\* are byte values, and high * 256 + low is the capacity.
C17_RoundTrip ==
    \A f \in Frames :
        (f.op = "writeCap" /\ f.cap \in 1..65535) =>
            /\ \A i \in 1..Len(f.trace) :
                  IsCapWrite(f.trace[i]) => f.trace[i].val \in 0..255
            /\ \A i, j \in 1..Len(f.trace) :
                  (f.trace[i].reg = RegCapHigh /\ f.trace[j].reg = RegCapLow)
                     => f.trace[i].val * 256 + f.trace[j].val = f.cap
            /\ HasChecksum(f) =>
                  f.block[OffsetHigh + 1] * 256 + f.block[OffsetLow + 1] = f.cap

\* writeCap has written both bytes of the largest capacity.
C17_Witness ==
    \E f \in Frames :
        /\ f.op = "writeCap" /\ f.cap = 65535
        /\ \E i, j \in 1..Len(f.trace) :
              /\ f.trace[i].reg = RegCapHigh /\ f.trace[i].ok
              /\ f.trace[j].reg = RegCapLow /\ f.trace[j].ok

\* C18: a typed 2-byte read decodes the register's bytes low byte first: the
\* unsigned read of [b0, b1] is b0 + 256 * b1, in 0..65535, and the signed read
\* is that value in two's complement, in -32768..32767; [0x64, 0x00] reads as
\* 100 unsigned and [0xFF, 0xFF] as -1 signed.
C18_TypedReads ==
    \A f \in Frames :
        f.op \in SnapshotOps =>
            \A i \in 1..Len(f.info) :
                LET s == Steps(f)[i]
                    b == dev.regs[s.reg]
                    v == f.info[i].val
                IN  /\ s.fmt = "H" =>
                          /\ v = b[1] + 256 * b[2]
                          /\ v \in 0..65535
                          /\ b = <<100, 0>> => v = 100
                    /\ s.fmt = "h" =>
                          /\ v \in -32768..32767
                          /\ v = IF b[2] >= 128 THEN b[1] + 256 * b[2] - 65536
                                 ELSE b[1] + 256 * b[2]
                          /\ b = <<255, 255>> => v = -1

\* A snapshot has read [0x64, 0x00] unsigned and [0xFF, 0xFF] signed.
C18_Witness ==
    \E f \in Frames :
        /\ f.op \in SnapshotOps /\ f.status = "returned"
        /\ \E i, j \in 1..Len(f.info) :
              /\ Steps(f)[i].fmt = "H" /\ dev.regs[Steps(f)[i].reg] = <<100, 0>>
              /\ f.info[i].val = 100
              /\ Steps(f)[j].fmt = "h" /\ dev.regs[Steps(f)[j].reg] = <<255, 255>>
              /\ f.info[j].val = -1

\* The block of the device differs from block b at most in the positions of S.
SameOutside(b, S) == \A i \in 1..BlockLen : i \notin S => dev.data[i] = b[i]

\* C19: for a single caller, writeCap writes block data only at the registers
\* of the two offsets it edited locally (block-data base + 0x0A and + 0x0B) and
\* a step of it changes no other byte of the device block; once both bytes are
\* written the device block is the edited local copy, and the checksum sent is
\* the checksum of the block the device then holds.
C19_WritesMatchEdit ==
    /\ [](\A f \in Frames :
            f.op = "writeCap" =>
               /\ \A i \in 1..Len(f.trace) :
                     (f.trace[i].k = "write_byte_data" /\ f.trace[i].reg \in BlockDataRegs)
                        => f.trace[i].reg \in {BQ27441_EXTENDED_BLOCKDATA + OffsetHigh,
                                               BQ27441_EXTENDED_BLOCKDATA + OffsetLow}
               /\ \A i \in 1..Len(f.trace) :
                     f.trace[i].reg = BQ27441_EXTENDED_BLOCKDATA + OffsetHigh
                        => f.trace[i].val = f.block[OffsetHigh + 1]
               /\ \A i \in 1..Len(f.trace) :
                     f.trace[i].reg = BQ27441_EXTENDED_BLOCKDATA + OffsetLow
                        => f.trace[i].val = f.block[OffsetLow + 1]
               /\ HasChecksum(f) => SameOutside(f.block, {OffsetHigh + 1, OffsetLow + 1})
               /\ \A k \in 1..Len(f.trace) :
                     IsChecksumWrite(f.trace[k]) =>
                        /\ dev.data = f.block
                        /\ f.trace[k].val = f.trace[k].devsum)
    /\ [][\A t \in Threads :
            (th[t].op = "writeCap" /\ th[t].status = "running")
               => \A i \in 1..BlockLen :
                     dev'.data[i] # dev.data[i] => i \in {OffsetHigh + 1, OffsetLow + 1}]_vars

\* writeCap has written both capacity bytes of a capacity the block did not
\* hold, and then the checksum, which the device accepted.
C19_Witness ==
    \E f \in Frames :
        /\ f.op = "writeCap" /\ calls = 1
        /\ \E k \in 1..Len(f.trace) : IsChecksumWrite(f.trace[k]) /\ f.trace[k].ok
        /\ dev.data = f.block
        /\ dev.csum = "ok"
        /\ dev.data[OffsetHigh + 1] # 0

====
